---- MODULE Spec2Model ----
(***************************************************************************)
(* Model of .storybook/stories/automatedStories.js: the adapter that turns *)
(* stencil component metadata into storybook stories with controls.        *)
(*                                                                         *)
(* The functions of the file are synchronous and pure up to the objects    *)
(* they are handed, so each is an operator, and each action applies one    *)
(* function to inputs drawn from bounded sets and records the call.        *)
(* Strings the code inspects character by character (default values,       *)
(* attribute names, union options) are sequences of one-character strings. *)
(***************************************************************************)
EXTENDS Integers, Sequences, FiniteSets, TLC

VARIABLES
    op,         \* the function called last ("none" before any call)
    cpProp,     \* getControlForProp: the prop argument
    cpOpts,     \* getControlForProp: the controlOptions argument
    cpResult,   \* getControlForProp: what the call produced
    pvProps,    \* getPropsWithControlValues: Component.properties
    pvResult,   \* getPropsWithControlValues: what the call produced
    heap,       \* createStencilStory: the arrays and state objects alive
    story,      \* createStencilStory: the closure of the registered story
    dom,        \* createStencilStory: the elements created and mainEl's children
    lastRender, \* createStencilStory: the last call of the render function
    bdInput,    \* buildStencilStories: the two webpack contexts
    bdResult    \* buildStencilStories: what the call produced

vars == <<op, cpProp, cpOpts, cpResult, pvProps, pvResult,
          heap, story, dom, lastRender, bdInput, bdResult>>

----------------------------------------------------------------------------
(* Bounds of the model *)

\* longest defaultValue string tried
MaxLen == 3
\* most states a caller hands to createStencilStory
MaxStates == 2
\* most calls of a story's render function
MaxRenders == 3
\* most component routes of a webpack context
MaxRoutes == 2

----------------------------------------------------------------------------
(* JavaScript values *)

Undefined == [t |-> "undefined", s |-> <<>>, n |-> 0]
Str(s) == [t |-> "string", s |-> s, n |-> 0]
Num(n) == [t |-> "number", s |-> <<>>, n |-> n]
DateNow == [t |-> "date", s |-> <<>>, n |-> 0]
ExampleLabel == Str(<<"E", "x", "a", "m", "p", "l", "e", " ", "L", "a", "b", "e", "l">>)

\* ToBoolean
Truthy(v) ==
    CASE v.t = "undefined" -> FALSE
      [] v.t = "string" -> v.s # <<>>
      [] v.t = "number" -> v.n # 0
      [] OTHER -> TRUE

\* a || b
OrElse(a, b) == IF Truthy(a) THEN a ELSE b

----------------------------------------------------------------------------
(* Strings as sequences of characters *)

Quote == "'"
WordChars == {"a", "b", "c", "d", "e", "g", "i", "m", "n", "p", "r", "s", "t", "P", "1"}
Whitespace == {" "}

\* \w
IsWord(c) == c \in WordChars

RECURSIVE SeqsUpTo(_, _)
SeqsUpTo(S, n) ==
    IF n = 0 THEN {<<>>}
    ELSE LET shorter == SeqsUpTo(S, n - 1)
         IN shorter \cup {Append(s, c) : s \in {x \in shorter : Len(x) = n - 1}, c \in S}

\* s.replace(/[chars]/g, '')
RECURSIVE Remove(_, _)
Remove(s, chars) ==
    IF s = <<>> THEN <<>>
    ELSE IF Head(s) \in chars THEN Remove(Tail(s), chars)
    ELSE <<Head(s)>> \o Remove(Tail(s), chars)

\* s.trim()
RECURSIVE TrimLeft(_)
TrimLeft(s) == IF s # <<>> /\ Head(s) \in Whitespace THEN TrimLeft(Tail(s)) ELSE s

RECURSIVE TrimRight(_)
TrimRight(s) ==
    IF s # <<>> /\ s[Len(s)] \in Whitespace THEN TrimRight(SubSeq(s, 1, Len(s) - 1)) ELSE s

Trim(s) == TrimRight(TrimLeft(s))

\* s.indexOf(sub) !== -1
Contains(s, sub) ==
    \E i \in 1..(Len(s) - Len(sub) + 1) : SubSeq(s, i, i + Len(sub) - 1) = sub

\* /('\w+')/g.test(s)
HasQuotedWord(s) ==
    \E i \in 1..Len(s) : \E j \in (i + 2)..Len(s) :
        /\ s[i] = Quote
        /\ s[j] = Quote
        /\ \A k \in (i + 1)..(j - 1) : IsWord(s[k])

\* /('')/g.test(s)
HasEmptyQuotes(s) == \E i \in 1..(Len(s) - 1) : s[i] = Quote /\ s[i + 1] = Quote

\* o.match(/('(\w|-)+')/g)
HasQuotedOption(s) ==
    \E i \in 1..Len(s) : \E j \in (i + 2)..Len(s) :
        /\ s[i] = Quote
        /\ s[j] = Quote
        /\ \A k \in (i + 1)..(j - 1) : IsWord(s[k]) \/ s[k] = "-"

\* the value of a string of decimal digits
RECURSIVE DigitsValue(_)
DigitsValue(s) ==
    IF s = <<>> THEN 0
    ELSE 10 * DigitsValue(SubSeq(s, 1, Len(s) - 1)) + (IF s[Len(s)] = "1" THEN 1 ELSE 0)

\* the texts JSON.parse accepts over this alphabet: a run of digits with
\* optional whitespace around it
IsJSON(s) == LET body == Trim(s) IN body # <<>> /\ \A i \in 1..Len(body) : body[i] = "1"

\* JSON.parse(s): the value, or a SyntaxError
JSONParse(s) ==
    IF IsJSON(s) THEN [threw |-> FALSE, value |-> Num(DigitsValue(Trim(s)))]
    ELSE [threw |-> TRUE, value |-> Undefined]

\* Case.camel(s) for kebab-case and camelCase names
Upper(c) == IF c = "p" THEN "P" ELSE c
Lower(c) == IF c = "P" THEN "p" ELSE c

RECURSIVE camel(_)
camel(s) ==
    IF s = <<>> THEN <<>>
    ELSE IF Head(s) = "-"
         THEN IF Tail(s) = <<>> THEN <<>>
              ELSE <<Upper(Head(Tail(s)))>> \o camel(Tail(Tail(s)))
    ELSE <<Head(s)>> \o camel(Tail(s))

\* Case.kebab(s) for kebab-case and camelCase names
RECURSIVE kebabFrom(_, _)
kebabFrom(s, atStart) ==
    IF s = <<>> THEN <<>>
    ELSE IF Head(s) # Lower(Head(s))
         THEN (IF atStart THEN <<>> ELSE <<"-">>) \o <<Lower(Head(s))>> \o kebabFrom(Tail(s), FALSE)
    ELSE <<Head(s)>> \o kebabFrom(Tail(s), FALSE)

kebab(s) == kebabFrom(s, TRUE)

\* s.split(' | ')
Separator == <<" ", "|", " ">>

RECURSIVE split(_, _)
split(s, current) ==
    IF s = <<>> THEN <<current>>
    ELSE IF Len(s) >= Len(Separator) /\ SubSeq(s, 1, Len(Separator)) = Separator
         THEN <<current>> \o split(SubSeq(s, Len(Separator) + 1, Len(s)), <<>>)
    ELSE split(Tail(s), Append(current, Head(s)))

\* String.prototype.toLowerCase on the type names used
toLowerCase(s) ==
    CASE s = "Boolean" -> "boolean"
      [] s = "String" -> "string"
      [] OTHER -> s

----------------------------------------------------------------------------
(* getControlForProp *)

NoControl == [type |-> "none", options |-> <<>>]
AbsentEntry ==
    [t |-> "undefined", control |-> NoControl, description |-> "", defaultValue |-> Undefined]

\* obj[key], undefined when the object has no such key
Get(obj, key, absent) == IF key \in DOMAIN obj THEN obj[key] ELSE absent

\* /^(?:number|boolean|object)$/i.test(type)
IsPrimitiveControlType(type) == toLowerCase(type) \in {"number", "boolean", "object"}

\* /^(?:string)$/i.test(type)
IsStringType(type) == toLowerCase(type) = "string"

\* /^(?:string|number|boolean|object)$/i.test(original)
IsPlainType(original) ==
    original \in { <<"s", "t", "r", "i", "n", "g">>,
                   <<"n", "u", "m", "b", "e", "r">>,
                   <<"b", "o", "o", "l", "e", "a", "n">>,
                   <<"o", "b", "j", "e", "c", "t">> }

\* o => (o.match(/('(\w|-)+')/g) ? o.replace(/'|\|/gi, '').trim() : o)
selectOption(o) == IF HasQuotedOption(o) THEN Trim(Remove(o, {Quote, "|"})) ELSE o

selectOptions(original) ==
    LET arrOptions == split(original, <<>>)
    IN [i \in 1..Len(arrOptions) |-> selectOption(arrOptions[i])]

\* ChooseControl with the type looked at before the story's entry
ChooseControl_InferFirst(prop, argTypesOptions) ==
    LET text == [t |-> "object", control |-> [type |-> "text", options |-> <<>>],
                 description |-> "", defaultValue |-> Str(<<>>)]
        inferred(c) == [t |-> "object", control |-> c, description |-> "",
                        defaultValue |-> Undefined]
    IN IF IsPrimitiveControlType(prop.type)
       THEN [control |-> inferred([type |-> toLowerCase(prop.type), options |-> <<>>]),
             defaultVal |-> Str(<<>>)]
       ELSE IF Truthy(argTypesOptions)
       THEN [control |-> argTypesOptions, defaultVal |-> Str(<<>>)]
       ELSE [control |-> text, defaultVal |-> Str(<<>>)]

\* the control and the initial default the code settles on before it looks at
\* the default value
ChooseControl(prop, argTypesOptions) ==
    LET text == [t |-> "object", control |-> [type |-> "text", options |-> <<>>],
                 description |-> "", defaultValue |-> Str(<<>>)]
        inferred(c) == [t |-> "object", control |-> c, description |-> "",
                        defaultValue |-> Undefined]
    IN IF Truthy(argTypesOptions)
       THEN [control |-> argTypesOptions, defaultVal |-> Str(<<>>)]
       ELSE IF IsPrimitiveControlType(prop.type)
       THEN [control |-> inferred([type |-> toLowerCase(prop.type), options |-> <<>>]),
             defaultVal |-> Str(<<>>)]
       ELSE IF IsStringType(prop.type)
       THEN IF ~IsPlainType(prop.original)
            THEN [control |-> inferred([type |-> "select",
                                        options |-> selectOptions(prop.original)]),
                  defaultVal |-> Str(<<>>)]
            ELSE [control |-> text, defaultVal |-> Str(<<>>)]
       ELSE IF Contains(prop.attribute, <<"d", "a", "t", "e">>)
       THEN [control |-> inferred([type |-> "date", options |-> <<>>]),
             defaultVal |-> DateNow]
       ELSE [control |-> text, defaultVal |-> Str(<<>>)]

\* the body of the try block: the default derived from prop.defaultValue
ParseDefault(defaultValue) ==
    IF defaultValue.t = "string"
    THEN IF HasQuotedWord(defaultValue.s) \/ HasEmptyQuotes(defaultValue.s)
         THEN [threw |-> FALSE,
               value |-> IF HasEmptyQuotes(defaultValue.s) THEN ExampleLabel
                         ELSE Str(Remove(defaultValue.s, {Quote}))]
         ELSE JSONParse(defaultValue.s)
    ELSE [threw |-> FALSE, value |-> defaultValue]

\* ChooseDefault without the catch block
ChooseDefault_NoCatch(prop, argsOption, defaultVal) ==
    IF Truthy(argsOption) THEN [threw |-> FALSE, value |-> argsOption]
    ELSE IF Truthy(prop.defaultValue) THEN ParseDefault(prop.defaultValue)
    ELSE [threw |-> FALSE, value |-> defaultVal]

\* the default value: the args option, else the parsed prop.defaultValue (the
\* string itself when parsing throws), else what the control chose
ChooseDefault(prop, argsOption, defaultVal) ==
    IF Truthy(argsOption) THEN [threw |-> FALSE, value |-> argsOption]
    ELSE IF Truthy(prop.defaultValue)
    THEN LET parsed == ParseDefault(prop.defaultValue)
         IN IF parsed.threw
            THEN [threw |-> FALSE,
                  value |-> IF prop.defaultValue.t = "string" THEN prop.defaultValue
                            ELSE Undefined]
            ELSE parsed
    ELSE [threw |-> FALSE, value |-> defaultVal]

\* controlOptions.args[propCamel] || controlOptions.args[prop.attribute]
argsOptionOf(prop, controlOptions) ==
    OrElse(Get(controlOptions.args, camel(prop.attribute), Undefined),
           Get(controlOptions.args, prop.attribute, Undefined))

\* controlOptions.argTypes[propCamel] || controlOptions.argTypes[prop.attribute]
argTypesOptionsOf(prop, controlOptions) ==
    OrElse(Get(controlOptions.argTypes, camel(prop.attribute), AbsentEntry),
           Get(controlOptions.argTypes, prop.attribute, AbsentEntry))

getControlForProp(prop, controlOptions) ==
    LET argsOption == argsOptionOf(prop, controlOptions)
        argTypesOptions == argTypesOptionsOf(prop, controlOptions)
        chosen == ChooseControl(prop, argTypesOptions)
        default == ChooseDefault(prop, argsOption, chosen.defaultVal)
    IN IF default.threw
       THEN [threw |-> TRUE, default |-> Undefined, control |-> AbsentEntry]
       ELSE [threw |-> FALSE,
             default |-> default.value,
             control |-> [chosen.control EXCEPT !.defaultValue = default.value]]

----------------------------------------------------------------------------
(* getPropsWithControlValues *)

\* the property after `if (property.hasOwnProperty('attr'))
\* property.attribute = property.attr`
normalize(property) ==
    IF property.hasAttr
    THEN [property EXCEPT !.attribute = property.attr, !.hasAttribute = TRUE]
    ELSE property

\* Component.properties || {}
propertiesOf(Component) == IF Component.hasProperties THEN Component.properties ELSE <<>>

getPropsWithControlValues(Component, controlOptions) ==
    LET properties == propertiesOf(Component)
        property(key) == normalize(properties[key])
        withControl == {key \in DOMAIN properties : property(key).hasAttribute}
    IN [args |-> [key \in withControl |->
                    getControlForProp(property(key), controlOptions).default],
        argTypes |-> [key \in withControl |->
                    getControlForProp(property(key), controlOptions).control],
        properties |-> [key \in DOMAIN properties |-> property(key)]]

----------------------------------------------------------------------------
(* createStencilStory and the render function it registers *)

\* String(n) for a number n >= 0
Digit(d) ==
    CASE d = 0 -> "0" [] d = 1 -> "1" [] d = 2 -> "2" [] d = 3 -> "3" [] d = 4 -> "4"
      [] d = 5 -> "5" [] d = 6 -> "6" [] d = 7 -> "7" [] d = 8 -> "8" [] OTHER -> "9"

RECURSIVE NumberToString(_)
NumberToString(n) ==
    IF n < 10 THEN <<Digit(n)>> ELSE NumberToString(n \div 10) \o <<Digit(n % 10)>>

\* the string setAttribute stores for a value
valueToString(v) == IF v.t = "number" THEN NumberToString(v.n) ELSE v.s

\* the attributes of an element after, for each prop in order,
\* setAttribute(Case.kebab(prop), value) when the value is truthy and
\* removeAttribute(Case.kebab(prop)) when it is not
RECURSIVE setAttributes(_, _)
setAttributes(attrs, props) ==
    IF props = <<>> THEN attrs
    ELSE LET name == kebab(Head(props).key)
             rest == [k \in DOMAIN attrs \ {name} |-> attrs[k]]
         IN setAttributes(
                IF Truthy(Head(props).value)
                THEN [k \in DOMAIN attrs \cup {name} |->
                        IF k = name THEN valueToString(Head(props).value) ELSE attrs[k]]
                ELSE rest,
                Tail(props))

\* createNodes(el, elements): the child elements appended, in order (the
\* elements tried have no props and no children of their own)
createNodes(elements) ==
    [i \in 1..Len(elements) |->
        [tag |-> elements[i].tag, innerHTML |-> elements[i].innerText]]

DefaultTitle == "Default state (use Controls below to edit props):"

\* the state createStencilStory puts first
defaultState(tag) ==
    [title |-> DefaultTitle, description |-> "", tag |-> tag,
     hasProps |-> TRUE, props |-> <<>>,
     children |-> <<[tag |-> "span", innerText |-> "Default"]>>,
     hasArgTypes |-> FALSE]

\* a new array holding `elements`
newArray(h, elements) ==
    LET id == Cardinality(DOMAIN h.arrays) + 1
    IN [heap |-> [h EXCEPT !.arrays = [a \in DOMAIN h.arrays \cup {id} |->
                                        IF a = id THEN elements ELSE h.arrays[a]]],
        id |-> id]

\* a new object
newObject(h, object) ==
    LET id == Cardinality(DOMAIN h.objects) + 1
    IN [heap |-> [h EXCEPT !.objects = [o \in DOMAIN h.objects \cup {id} |->
                                        IF o = id THEN object ELSE h.objects[o]]],
        id |-> id]

\* cloneStates without the slice: the story keeps the caller's array
cloneStates_Alias(h, callerStates) ==
    IF callerStates # 0 /\ Len(h.arrays[callerStates]) > 0
    THEN [heap |-> h, id |-> callerStates]
    ELSE newArray(h, <<>>)

\* states = states && states.length ? states.slice(0) : []
\* (callerStates = 0 stands for a config without states)
cloneStates(h, callerStates) ==
    IF callerStates # 0 /\ Len(h.arrays[callerStates]) > 0
    THEN newArray(h, h.arrays[callerStates])
    ELSE newArray(h, <<>>)

\* states.unshift({...})
unshift(h, array, object) ==
    LET made == newObject(h, object)
    IN [made.heap EXCEPT !.arrays[array] = <<made.id>> \o @]

\* the heap after the body of createStencilStory up to stories.add
storyStates(h, callerStates, tag) ==
    LET cloned == cloneStates(h, callerStates)
    IN [heap |-> unshift(cloned.heap, cloned.id, defaultState(tag)), states |-> cloned.id]

\* clearChildren that clears nothing
clearChildren_Keep(children) == children

\* mainEl.innerHTML = ''
clearChildren(children) == <<>>

\* setDefaultProps with the args added to the props of the render before
setDefaultProps_Merge(h, states, args) ==
    [h EXCEPT !.objects[h.arrays[states][1]].props = @ \o args,
              !.objects[h.arrays[states][1]].hasArgTypes = TRUE]

\* states[0].props = { ...args }; states[0].argTypes = controls.argTypes
setDefaultProps(h, states, args) ==
    [h EXCEPT !.objects[h.arrays[states][1]].props = args,
              !.objects[h.arrays[states][1]].hasArgTypes = TRUE]

\* what states.forEach builds for the i-th state: the container, with the
\* template's title and description, and the component element in its
\* placeholder
containerFor(h, states, i, tag, firstId) ==
    LET state == h.objects[h.arrays[states][i]]
    IN [id |-> firstId + 2 * (i - 1),
        state |-> h.arrays[states][i],
        title |-> state.title,
        description |-> state.description,
        props |-> state.props,
        component |->
            [id |-> firstId + 2 * (i - 1) + 1,
             tag |-> tag,
             attributes |-> IF state.hasProps THEN setAttributes(<<>>, state.props) ELSE <<>>,
             childNodes |-> createNodes(state.children)]]

\* the render function: the heap and the document after it, and its result
render(h, d, st, args) ==
    LET h1 == setDefaultProps(h, st.states, args)
        count == Len(h1.arrays[st.states])
        containers == [i \in 1..count |-> containerFor(h1, st.states, i, st.tag, d.nextEl)]
    IN [heap |-> h1,
        dom |-> [nextEl |-> d.nextEl + 2 * count,
                 mainChildren |-> clearChildren(d.mainChildren) \o containers],
        returned |-> st.mainEl]

----------------------------------------------------------------------------
(* buildGeneratorConfigs and buildStencilStories *)

\* A route is the sequence of the segments of its path: ./a/a.js is
\* <<".", "a", "a.js">>.  A module is the sequence of its exports, in the
\* order of Object.keys.

\* does it quack like a stencil class component? Reading a property of an
\* export that is null or undefined is a TypeError.
quacks(export) ==
    IF export.nullish THEN [threw |-> TRUE, value |-> FALSE]
    ELSE [threw |-> FALSE,
          value |-> export.prototype /\ export.is /\ export.encapsulation]

NoExport ==
    [nullish |-> TRUE, prototype |-> FALSE, is |-> FALSE, encapsulation |-> FALSE,
     name |-> ""]

\* _module[key]
exportAt(module, key) ==
    IF \E i \in 1..Len(module) : module[i].key = key
    THEN module[CHOOSE i \in 1..Len(module) : module[i].key = key].value
    ELSE NoExport

\* Object.keys(_module).find(...): the first key whose export quacks,
\* "undefined" when there is none
RECURSIVE findComponentKey(_, _)
findComponentKey(module, i) ==
    IF i > Len(module) THEN [threw |-> FALSE, key |-> "undefined"]
    ELSE IF quacks(module[i].value).threw THEN [threw |-> TRUE, key |-> "undefined"]
    ELSE IF quacks(module[i].value).value THEN [threw |-> FALSE, key |-> module[i].key]
    ELSE findComponentKey(module, i + 1)

getComponentFromExports(module) ==
    LET found == findComponentKey(module, 1)
    IN IF found.threw THEN [threw |-> TRUE, value |-> NoExport]
       ELSE [threw |-> FALSE, value |-> exportAt(module, found.key)]

\* stand for the backslash and the backtick characters in notes
Backslash == "backslash"
Backtick == "backtick"

\* notes.replace(...): every backslash followed by | becomes backtick, space,
\* backtick
RECURSIVE cleanNotes(_)
cleanNotes(notes) ==
    IF notes = <<>> THEN <<>>
    ELSE IF Len(notes) >= 2 /\ notes[1] = Backslash /\ notes[2] = "|"
         THEN <<Backtick, " ", Backtick>> \o cleanNotes(Tail(Tail(notes)))
    ELSE <<Head(notes)>> \o cleanNotes(Tail(notes))

\* path.basename(path.dirname(route))
dirNameOf(route) == IF Len(route) >= 2 THEN route[Len(route) - 1] ELSE "."

\* k.indexOf('/' + dir + '/') > -1
containsDir(storyRoute, dir) == \E i \in 2..(Len(storyRoute) - 1) : storyRoute[i] = dir

\* storyRoutes.find(k => k.indexOf(dirName) > -1): its index, 0 when none
findStoryRoute(storiesCtx, dir) ==
    IF \E i \in 1..Len(storiesCtx) : containsDir(storiesCtx[i].route, dir)
    THEN CHOOSE i \in 1..Len(storiesCtx) :
            /\ containsDir(storiesCtx[i].route, dir)
            /\ \A j \in 1..(i - 1) : ~containsDir(storiesCtx[j].route, dir)
    ELSE 0

NoStoryExport ==
    [kind |-> "undefined", fn |-> 0, hasStates |-> FALSE, states |-> <<>>,
     controlOptions |-> [args |-> <<>>, argTypes |-> <<>>], notes |-> <<>>]

\* Object.assign(obj, { [key]: value }): an object is the sequence of its
\* entries in insertion order
assign(obj, key, value) ==
    IF \E i \in 1..Len(obj) : obj[i].key = key
    THEN [i \in 1..Len(obj) |-> IF obj[i].key = key THEN [key |-> key, value |-> value]
                                ELSE obj[i]]
    ELSE Append(obj, [key |-> key, value |-> value])

\* the config of a component: the story file's function, the story file's
\* settings, or the component alone.  `route` records where it came from.
configFor(Component, route, export, hasStory) ==
    IF hasStory /\ export.kind = "function"
    THEN [isFunction |-> TRUE, fn |-> export.fn, route |-> route, Component |-> Component,
          hasStory |-> TRUE, hasStates |-> FALSE, states |-> <<>>,
          controlOptions |-> [args |-> <<>>, argTypes |-> <<>>], notes |-> <<>>]
    ELSE IF hasStory
    THEN [isFunction |-> FALSE, fn |-> 0, route |-> route, Component |-> Component,
          hasStory |-> TRUE, hasStates |-> export.hasStates, states |-> export.states,
          controlOptions |-> export.controlOptions, notes |-> cleanNotes(export.notes)]
    ELSE [isFunction |-> FALSE, fn |-> 0, route |-> route, Component |-> Component,
          hasStory |-> FALSE, hasStates |-> FALSE, states |-> <<>>,
          controlOptions |-> [args |-> <<>>, argTypes |-> <<>>], notes |-> <<>>]

\* one step of componentRoutes.reduce(...)
reduceRoute(acc, entry, storiesCtx) ==
    LET Component == getComponentFromExports(entry.module)
        storyRoute == findStoryRoute(storiesCtx, dirNameOf(entry.route))
        export == IF storyRoute = 0 THEN NoStoryExport ELSE storiesCtx[storyRoute].default
    IN IF acc.threw THEN acc
       ELSE IF Component.threw THEN [acc EXCEPT !.threw = TRUE]
       ELSE IF Component.value.nullish
       THEN [acc EXCEPT !.warnings = Append(@, entry.route)]
       ELSE IF storyRoute # 0 /\ export.kind = "undefined"
       THEN [acc EXCEPT !.threw = TRUE]
       ELSE [acc EXCEPT !.configs =
                assign(@, Component.value.name,
                       configFor(Component.value, entry.route, export, storyRoute # 0))]

RECURSIVE reduceRoutes(_, _, _)
reduceRoutes(acc, componentsCtx, storiesCtx) ==
    IF componentsCtx = <<>> THEN acc
    ELSE reduceRoutes(reduceRoute(acc, Head(componentsCtx), storiesCtx),
                      Tail(componentsCtx), storiesCtx)

buildGeneratorConfigs(componentsCtx, storiesCtx) ==
    reduceRoutes([threw |-> FALSE, warnings |-> <<>>, configs |-> <<>>],
                 componentsCtx, storiesCtx)

\* what buildStencilStories does with one config
dispatch(config) ==
    IF config.isFunction
    THEN [kind |-> "config", fn |-> config.fn, route |-> config.route,
          Component |-> config.Component, hasStory |-> config.hasStory]
    ELSE [kind |-> "createStencilStory", fn |-> 0, route |-> config.route,
          Component |-> config.Component, hasStory |-> config.hasStory]

buildStencilStories(componentsCtx, storiesCtx) ==
    LET built == buildGeneratorConfigs(componentsCtx, storiesCtx)
        calls == [i \in 1..Len(built.configs) |-> dispatch(built.configs[i].value)]
        created == SelectSeq(calls, LAMBDA c : c.kind = "createStencilStory")
    IN IF built.threw
       THEN [threw |-> TRUE, warnings |-> built.warnings, configs |-> <<>>, calls |-> <<>>,
             added |-> <<>>]
       ELSE [threw |-> FALSE, warnings |-> built.warnings, configs |-> built.configs,
             calls |-> calls,
             added |-> [i \in 1..Len(created) |-> created[i].Component.name]]

----------------------------------------------------------------------------
(* Inputs of getControlForProp *)

Attributes == { <<"c">>, <<"m", "-", "p">>, <<"d", "a", "t", "e">> }
Types == {"number", "Boolean", "string", "any"}

PlainString == <<"s", "t", "r", "i", "n", "g">>
\* 'a' | 'd-e'
QuotedUnion == <<"'", "a", "'", " ", "|", " ", "'", "d", "-", "e", "'">>
\* a  | 'c'
MixedUnion == <<"a", " ", " ", "|", " ", "'", "c", "'">>
Originals == {PlainString, QuotedUnion, MixedUnion}

DefaultValueChars == {Quote, "a", "1", " "}
DefaultValues == {Undefined} \cup {Str(s) : s \in SeqsUpTo(DefaultValueChars, MaxLen)}

Props ==
    [attribute : Attributes, type : Types, original : Originals, defaultValue : DefaultValues]

ColorEntry ==
    [t |-> "object", control |-> [type |-> "color", options |-> <<>>],
     description |-> "desc", defaultValue |-> Str(<<"c">>)]
BareEntry ==
    [t |-> "object", control |-> NoControl, description |-> "bare", defaultValue |-> Undefined]

UnrelatedKey == <<"e">>

NoOpts == [args |-> <<>>, argTypes |-> <<>>]

\* an object with the entries given that are not undefined
ObjectOf(camelKey, camelVal, attrKey, attrVal, otherVal) ==
    LET val(k) == IF k = camelKey THEN camelVal ELSE IF k = attrKey THEN attrVal ELSE otherVal
        keys == {k \in {camelKey, attrKey, UnrelatedKey} : val(k).t # "undefined"}
    IN [k \in keys |-> val(k)]

\* the control options a story may give for a property with this attribute
ControlOptionsFor(attribute) ==
    { [args |-> ObjectOf(camel(attribute), a1, attribute, a2, Str(<<"e">>)),
       argTypes |-> ObjectOf(camel(attribute), t1, attribute, t2, BareEntry)] :
        a1 \in {Undefined, Str(<<>>), Str(<<"a">>)},
        a2 \in {Undefined, Num(0), Num(1)},
        t1 \in {AbsentEntry, ColorEntry},
        t2 \in {AbsentEntry, BareEntry} }

----------------------------------------------------------------------------
(* Inputs of getPropsWithControlValues *)

\* the member names of the component
PropertyKeys == { <<"c">>, <<"m", "P">>, <<"d">> }

\* the descriptors stencil may emit for a member: with an attribute, with the
\* older attr, with both, and with neither (a member that has no attribute)
PropertiesOfKey(key) ==
    LET base == [type |-> "string", original |-> QuotedUnion,
                 defaultValue |-> Str(<<Quote, "a", Quote>>),
                 hasAttr |-> FALSE, attr |-> <<>>,
                 hasAttribute |-> FALSE, attribute |-> <<>>]
    IN { base,
         [base EXCEPT !.hasAttribute = TRUE, !.attribute = kebab(key)],
         [base EXCEPT !.hasAttr = TRUE, !.attr = kebab(key)],
         [base EXCEPT !.hasAttr = TRUE, !.attr = kebab(key),
                      !.hasAttribute = TRUE, !.attribute = <<"d", "a", "t", "e">>] }

PropertiesOver(keys) ==
    {f \in [keys -> UNION {PropertiesOfKey(k) : k \in keys}] :
        \A k \in keys : f[k] \in PropertiesOfKey(k)}

Components ==
    {[hasProperties |-> FALSE, properties |-> <<>>]} \cup
    {[hasProperties |-> TRUE, properties |-> f] :
        f \in UNION {PropertiesOver(keys) : keys \in SUBSET PropertyKeys}}

StoryControlOptions ==
    { NoOpts,
      [args |-> (<<"m", "P">> :> Num(1)),
       argTypes |-> (<<"m", "P">> :> ColorEntry)] }

NoComponent == [hasProperties |-> FALSE, properties |-> <<>>]
NoControls == [args |-> <<>>, argTypes |-> <<>>, properties |-> <<>>]

----------------------------------------------------------------------------
(* Inputs of createStencilStory and of the render function *)

Prop(key, value) == [key |-> key, value |-> value]

\* the states a story file may list
StateObjects ==
    { [title |-> "A", description |-> "why", tag |-> "", hasProps |-> TRUE,
       props |-> <<Prop(<<"c">>, Str(<<"a">>))>>,
       children |-> <<>>, hasArgTypes |-> FALSE],
      [title |-> "B", description |-> "", tag |-> "", hasProps |-> TRUE,
       props |-> <<Prop(<<"m", "P">>, Num(1)), Prop(<<"d">>, Num(0))>>,
       children |-> <<[tag |-> "span", innerText |-> "x"]>>, hasArgTypes |-> FALSE],
      [title |-> "C", description |-> "", tag |-> "", hasProps |-> FALSE,
       props |-> <<>>,
       children |-> <<>>, hasArgTypes |-> FALSE] }

\* the args storybook may hand to the render function
RenderArgs ==
    { <<>>,
      <<Prop(<<"c">>, Str(<<"a">>))>>,
      <<Prop(<<"m", "P">>, Num(1)), Prop(<<"m", "-", "p">>, Str(<<>>))>>,
      <<Prop(<<"d">>, Str(<<"c">>)), Prop(<<"m", "P">>, Num(11))>> }

\* a component with a string union member and a boolean member
SampleComponent ==
    [name |-> "MyButton", is |-> "my-button", hasProperties |-> TRUE,
     properties |->
        (<<"c">> :> [type |-> "string", original |-> QuotedUnion,
                     defaultValue |-> Str(<<Quote, "a", Quote>>),
                     hasAttr |-> FALSE, attr |-> <<>>,
                     hasAttribute |-> TRUE, attribute |-> <<"c">>]) @@
        (<<"m", "P">> :> [type |-> "boolean",
                     original |-> <<"b", "o", "o", "l", "e", "a", "n">>,
                     defaultValue |-> Str(<<"a">>),
                     hasAttr |-> FALSE, attr |-> <<>>,
                     hasAttribute |-> TRUE, attribute |-> <<"m", "-", "p">>])]

\* the configs createStencilStory may be handed for it
StoryConfigs ==
    [Component : {SampleComponent},
     notes : {"", "notes"},
     hasStates : BOOLEAN,
     states : UNION {[1..n -> StateObjects] : n \in 0..MaxStates},
     controlOptions : StoryControlOptions]

EmptyHeap == [arrays |-> <<>>, objects |-> <<>>]
NoStory ==
    [created |-> FALSE, name |-> "", tag |-> "", mainEl |-> 0, states |-> 0,
     callerStates |-> 0, before |-> EmptyHeap,
     storyOpts |-> [notes |-> "", args |-> <<>>, argTypes |-> <<>>]]
NoRender == [count |-> 0, args |-> <<>>, returned |-> 0]

----------------------------------------------------------------------------
(* Inputs of buildGeneratorConfigs and buildStencilStories *)

StencilComponent(name) ==
    [nullish |-> FALSE, prototype |-> TRUE, is |-> TRUE, encapsulation |-> TRUE,
     name |-> name]
\* a function that is no component
Helper ==
    [nullish |-> FALSE, prototype |-> TRUE, is |-> FALSE, encapsulation |-> FALSE,
     name |-> "helper"]

Export(key, value) == [key |-> key, value |-> value]

Modules ==
    { <<Export("MyButton", StencilComponent("MyButton"))>>,
      <<Export("helper", Helper), Export("Other", StencilComponent("Other"))>>,
      <<Export("helper", Helper)>>,
      <<Export("legacy", NoExport), Export("MyButton", StencilComponent("MyButton"))>>,
      <<Export("legacy", NoExport)>>,
      <<>> }

ComponentRoutes ==
    << <<".", "components", "a", "a.js">>,
       <<".", "components", "b", "b.js">>,
       <<".", "c.js">> >>

\* the lists componentsCtx.keys() may return, each route with its module
ComponentsContexts ==
    UNION { { [i \in 1..n |-> [route |-> ComponentRoutes[order[i]], module |-> modules[i]]] :
                order \in {o \in [1..n -> 1..Len(ComponentRoutes)] :
                              \A i, j \in 1..n : i # j => o[i] # o[j]},
                modules \in [1..n -> Modules] } :
            n \in 1..MaxRoutes }

StoryFunction == [NoStoryExport EXCEPT !.kind = "function", !.fn = 1]
StorySettings ==
    [kind |-> "object", fn |-> 0, hasStates |-> TRUE,
     states |-> <<CHOOSE st \in StateObjects : st.title = "A">>,
     controlOptions |-> [args |-> (<<"c">> :> Str(<<"a">>)), argTypes |-> <<>>],
     notes |-> <<"a", Backslash, "|", "b">>]
StoryExports == {StoryFunction, StorySettings, NoStoryExport}

\* the story files: one in the directory a, one in a directory of its own
StoriesContexts ==
    {<<>>} \cup
    { <<[route |-> <<".", "components", "a", "a.stories.tsx">>, default |-> e]>> :
        e \in StoryExports } \cup
    { <<[route |-> <<".", "docs", "intro.stories.tsx">>, default |-> StorySettings],
        [route |-> <<".", "components", "b", "b.stories.tsx">>, default |-> e]>> :
        e \in StoryExports }

NoBuildInput == [componentsCtx |-> <<>>, storiesCtx |-> <<>>]
NoBuildResult ==
    [threw |-> FALSE, warnings |-> <<>>, configs |-> <<>>, calls |-> <<>>, added |-> <<>>]

NoProp == [attribute |-> <<>>, type |-> "", original |-> <<>>, defaultValue |-> Undefined]
NoControlResult == [threw |-> FALSE, default |-> Undefined, control |-> AbsentEntry]

----------------------------------------------------------------------------
(* State machine *)

Init ==
    /\ op = "none"
    /\ cpProp = NoProp
    /\ cpOpts = NoOpts
    /\ cpResult = NoControlResult
    /\ pvProps = NoComponent
    /\ pvResult = NoControls
    /\ heap = EmptyHeap
    /\ story = NoStory
    /\ dom = [nextEl |-> 1, mainChildren |-> <<>>]
    /\ lastRender = NoRender
    /\ bdInput = NoBuildInput
    /\ bdResult = NoBuildResult

\* a call getControlForProp(prop, controlOptions)
GetControlForProp ==
    /\ op = "none"
    /\ \E prop \in Props : \E controlOptions \in ControlOptionsFor(prop.attribute) :
        /\ op' = "getControlForProp"
        /\ cpProp' = prop
        /\ cpOpts' = controlOptions
        /\ cpResult' = getControlForProp(prop, controlOptions)
        /\ UNCHANGED <<pvProps, pvResult, heap, story, dom, lastRender, bdInput, bdResult>>

\* a call getPropsWithControlValues(Component, controlOptions)
GetPropsWithControlValues ==
    /\ op = "none"
    /\ \E Component \in Components : \E controlOptions \in StoryControlOptions :
        /\ op' = "getPropsWithControlValues"
        /\ pvProps' = Component
        /\ cpOpts' = controlOptions
        /\ pvResult' = getPropsWithControlValues(Component, controlOptions)
        /\ UNCHANGED <<cpProp, cpResult, heap, story, dom, lastRender, bdInput, bdResult>>

\* the heap of a caller about to pass `config`: its states array, if it has
\* one, and the state objects in it
callerHeap(config) ==
    [arrays |-> IF config.hasStates
                THEN <<[i \in 1..Len(config.states) |-> i]>>
                ELSE <<>>,
     objects |-> config.states]

\* a call createStencilStory(config, stories)
CreateStencilStory ==
    /\ op = "none"
    /\ \E config \in StoryConfigs :
        LET before == callerHeap(config)
            callerStates == IF config.hasStates THEN 1 ELSE 0
            controls == getPropsWithControlValues(config.Component, config.controlOptions)
            made == storyStates(before, callerStates, config.Component.is)
        IN /\ ~config.hasStates => config.states = <<>>
           /\ op' = "createStencilStory"
           /\ heap' = made.heap
           /\ dom' = [nextEl |-> dom.nextEl + 1, mainChildren |-> <<>>]
           /\ story' = [created |-> TRUE,
                        name |-> config.Component.name,
                        tag |-> config.Component.is,
                        mainEl |-> dom.nextEl,
                        states |-> made.states,
                        callerStates |-> callerStates,
                        before |-> before,
                        storyOpts |-> [notes |-> config.notes,
                                       args |-> controls.args,
                                       argTypes |-> controls.argTypes]]
           /\ UNCHANGED <<cpProp, cpOpts, cpResult, pvProps, pvResult, lastRender,
                          bdInput, bdResult>>

\* storybook calls the render function of the story with `args`
Render ==
    /\ story.created
    /\ lastRender.count < MaxRenders
    /\ \E args \in RenderArgs :
        LET done == render(heap, dom, story, args)
        IN /\ op' = "render"
           /\ heap' = done.heap
           /\ dom' = done.dom
           /\ lastRender' = [count |-> lastRender.count + 1, args |-> args,
                             returned |-> done.returned]
           /\ UNCHANGED <<cpProp, cpOpts, cpResult, pvProps, pvResult, story,
                          bdInput, bdResult>>

\* a call buildGeneratorConfigs(componentsCtx, storiesCtx)
BuildGeneratorConfigs ==
    /\ op = "none"
    /\ \E componentsCtx \in ComponentsContexts : \E storiesCtx \in StoriesContexts :
        LET built == buildGeneratorConfigs(componentsCtx, storiesCtx)
        IN /\ op' = "buildGeneratorConfigs"
           /\ bdInput' = [componentsCtx |-> componentsCtx, storiesCtx |-> storiesCtx]
           /\ bdResult' = [threw |-> built.threw, warnings |-> built.warnings,
                           configs |-> IF built.threw THEN <<>> ELSE built.configs,
                           calls |-> <<>>, added |-> <<>>]
           /\ UNCHANGED <<cpProp, cpOpts, cpResult, pvProps, pvResult, heap, story, dom,
                          lastRender>>

\* a call buildStencilStories(name, componentsCtx, storiesCtx)
BuildStencilStories ==
    /\ op = "none"
    /\ \E componentsCtx \in ComponentsContexts : \E storiesCtx \in StoriesContexts :
        /\ op' = "buildStencilStories"
        /\ bdInput' = [componentsCtx |-> componentsCtx, storiesCtx |-> storiesCtx]
        /\ bdResult' = buildStencilStories(componentsCtx, storiesCtx)
        /\ UNCHANGED <<cpProp, cpOpts, cpResult, pvProps, pvResult, heap, story, dom,
                       lastRender>>

Next ==
    \/ GetControlForProp
    \/ GetPropsWithControlValues
    \/ CreateStencilStory
    \/ Render
    \/ BuildGeneratorConfigs
    \/ BuildStencilStories

Spec == Init /\ [][Next]_vars

----------------------------------------------------------------------------
(* Claims about getControlForProp *)

\* the call recorded has no matching args option and a string defaultValue
MalformedDefaultCase ==
    /\ op = "getControlForProp"
    /\ ~Truthy(argsOptionOf(cpProp, cpOpts))
    /\ cpProp.defaultValue.t = "string"

\* the defaultValue is no quoted word, has no '' and is no JSON text
Unparseable(s) == ~HasQuotedWord(s) /\ ~HasEmptyQuotes(s) /\ ~IsJSON(s)

\* the call recorded inferred a date control: no argTypes entry, a type that is
\* none of number, boolean, object and string, and "date" in the attribute
DateInferred ==
    /\ ~Truthy(argTypesOptionsOf(cpProp, cpOpts))
    /\ toLowerCase(cpProp.type) \notin {"number", "boolean", "object", "string"}
    /\ Contains(cpProp.attribute, <<"d", "a", "t", "e">>)

\* C2 as stated: with no matching args option and any string defaultValue,
\* getControlForProp returns, and a defaultValue that has no quoted word, no ''
\* and is not JSON comes back unchanged as the default.
C2_AnyStringUnchanged ==
    MalformedDefaultCase =>
        /\ ~cpResult.threw
        /\ Unparseable(cpProp.defaultValue.s) => cpResult.default = cpProp.defaultValue

\* C2 as amended: the same, except that the empty defaultValue of a property
\* whose control is inferred as a date comes back as the current date.
C2_MalformedDefaultFallsBack ==
    MalformedDefaultCase =>
        /\ ~cpResult.threw
        /\ Unparseable(cpProp.defaultValue.s) =>
              cpResult.default =
                  IF cpProp.defaultValue.s = <<>> /\ DateInferred THEN DateNow
                  ELSE cpProp.defaultValue

\* a non-empty defaultValue that JSON.parse rejects came back unchanged
C2_Witness ==
    /\ MalformedDefaultCase
    /\ cpProp.defaultValue.s = <<"a", Quote>>
    /\ ~cpResult.threw
    /\ cpResult.default = Str(<<"a", Quote>>)

\* the control a type alone calls for, with text for every other type
ControlByType(prop, otherwise) ==
    LET type == toLowerCase(prop.type)
    IN IF type \in {"number", "boolean", "object"} THEN [type |-> type, options |-> <<>>]
       ELSE IF type = "string" /\ ~IsPlainType(prop.original)
       THEN [type |-> "select", options |-> selectOptions(prop.original)]
       ELSE IF type = "string" THEN [type |-> "text", options |-> <<>>]
       ELSE otherwise

\* the story's entries win, and the control is otherwise the one `inferred`
ControlOptionsWin(inferred) ==
    LET argTypesOptions == argTypesOptionsOf(cpProp, cpOpts)
        argsOption == argsOptionOf(cpProp, cpOpts)
    IN op = "getControlForProp" =>
        /\ Truthy(argTypesOptions) =>
              cpResult.control = [argTypesOptions EXCEPT !.defaultValue = cpResult.default]
        /\ ~Truthy(argTypesOptions) => cpResult.control.control = inferred
        /\ (~Truthy(argTypesOptions) /\ cpProp.type = "string" /\ cpProp.original = QuotedUnion) =>
              cpResult.control.control.options = << <<"a">>, <<"d", "-", "e">> >>
        /\ Truthy(argsOption) => cpResult.default = argsOption

\* C4 as stated: a truthy argTypes entry under the camelCased attribute or the
\* attribute is the control returned, with defaultValue added, whatever the
\* type; without one the control is number, boolean or object for those
\* types, a select of the union's options for a string union, and text
\* otherwise. A truthy args entry is the default returned.
C4_TextOtherwise == ControlOptionsWin(ControlByType(cpProp, [type |-> "text", options |-> <<>>]))

\* C4 as amended: the same, except that a property whose type is none of
\* number, boolean, object and string and whose attribute contains "date"
\* gets a date control.
C4_ControlOptionsWin ==
    ControlOptionsWin(ControlByType(cpProp,
        IF Contains(cpProp.attribute, <<"d", "a", "t", "e">>)
        THEN [type |-> "date", options |-> <<>>]
        ELSE [type |-> "text", options |-> <<>>]))

\* a number property came back with the color control and the default the
\* story gave under the attribute name
C4_Witness ==
    /\ op = "getControlForProp"
    /\ cpProp.type = "number"
    /\ cpProp.attribute = <<"m", "-", "p">>
    /\ Truthy(cpProp.defaultValue)
    /\ cpResult.control.control.type = "color"
    /\ cpResult.default = Num(1)

----------------------------------------------------------------------------
(* Claims about getPropsWithControlValues *)

\* C3: the result of getPropsWithControlValues has an entry in args and in
\* argTypes under every key of Component.properties, and under no other key.
C3_EveryPropertyHasEntry ==
    op = "getPropsWithControlValues" =>
        /\ DOMAIN pvResult.args = DOMAIN propertiesOf(pvProps)
        /\ DOMAIN pvResult.argTypes = DOMAIN propertiesOf(pvProps)

----------------------------------------------------------------------------
(* Claims about createStencilStory and its render function *)

\* the states the caller handed over, as they were at the call
callerStatesBefore ==
    IF story.callerStates = 0 THEN <<>> ELSE story.before.arrays[story.callerStates]

\* the default state createStencilStory made
defaultStateId == Cardinality(DOMAIN story.before.objects) + 1

\* the state objects mainEl's containers were rendered from, in order
renderedStates == [i \in 1..Len(dom.mainChildren) |-> dom.mainChildren[i].state]

\* C5: after createStencilStory and any number of renders the caller's states
\* array has the elements it had, in the same order, none of the caller's
\* state objects is modified, and what is rendered is the default state
\* followed by the caller's states in their order.
C5_CallerStatesUntouched ==
    story.created =>
        /\ story.callerStates # 0 =>
              heap.arrays[story.callerStates] = callerStatesBefore
        /\ \A o \in DOMAIN story.before.objects : heap.objects[o] = story.before.objects[o]
        /\ lastRender.count > 0 =>
              /\ renderedStates = <<defaultStateId>> \o callerStatesBefore
              /\ dom.mainChildren[1].title = DefaultTitle
              /\ \A i \in 1..Len(callerStatesBefore) :
                    dom.mainChildren[i + 1].title =
                        story.before.objects[callerStatesBefore[i]].title

\* two states were handed over and the story was rendered twice
C5_Witness ==
    /\ op = "render"
    /\ lastRender.count = 2
    /\ Len(callerStatesBefore) = 2
    /\ heap.arrays[story.callerStates] = <<1, 2>>
    /\ Len(heap.arrays[story.states]) = 3

\* C7: every render returns the main container made by createStencilStory,
\* and after it the container holds one state container per state, the
\* default state first, all of them made by this render.
C7_OneContainerPerState ==
    lastRender.count > 0 =>
        /\ lastRender.returned = story.mainEl
        /\ Len(dom.mainChildren) = 1 + Len(callerStatesBefore)
        /\ renderedStates[1] = defaultStateId
        /\ \A i \in 1..Len(callerStatesBefore) : renderedStates[i + 1] = callerStatesBefore[i]
        /\ \A i \in 1..Len(dom.mainChildren) :
              /\ dom.mainChildren[i].id >= dom.nextEl - 2 * Len(dom.mainChildren)
              /\ \A j \in 1..Len(dom.mainChildren) :
                    i # j => dom.mainChildren[i].id # dom.mainChildren[j].id

\* the third render of a story with two states left three containers
C7_Witness ==
    /\ op = "render"
    /\ lastRender.count = 3
    /\ Len(callerStatesBefore) = 2
    /\ Len(dom.mainChildren) = 3
    /\ lastRender.returned = 1

\* C8: after a render with args A the default state's props are exactly A, and
\* every other state is rendered from the props the caller gave it.
C8_OnlyDefaultStateFollowsArgs ==
    lastRender.count > 0 =>
        /\ heap.objects[defaultStateId].props = lastRender.args
        /\ dom.mainChildren[1].props = lastRender.args
        /\ dom.mainChildren[1].component.attributes = setAttributes(<<>>, lastRender.args)
        /\ \A i \in 1..Len(callerStatesBefore) :
              LET given == story.before.objects[callerStatesBefore[i]]
              IN /\ dom.mainChildren[i + 1].props = given.props
                 /\ dom.mainChildren[i + 1].component.attributes =
                        IF given.hasProps THEN setAttributes(<<>>, given.props) ELSE <<>>

\* a second render with other args: the default state has the new args only,
\* the state B still has the attribute its own props give it
C8_Witness ==
    /\ op = "render"
    /\ lastRender.count = 2
    /\ lastRender.args = <<Prop(<<"c">>, Str(<<"a">>))>>
    /\ dom.mainChildren[1].component.attributes = (<<"c">> :> <<"a">>)
    /\ Len(callerStatesBefore) >= 1
    /\ dom.mainChildren[2].title = "B"
    /\ dom.mainChildren[2].component.attributes = (<<"m", "-", "p">> :> <<"1">>)

----------------------------------------------------------------------------
(* Claims about buildGeneratorConfigs and buildStencilStories *)

\* the module has an export with a truthy prototype, is and encapsulation
hasStencilExport(module) ==
    \E i \in 1..Len(module) :
        /\ ~module[i].value.nullish
        /\ module[i].value.prototype
        /\ module[i].value.is
        /\ module[i].value.encapsulation

\* the sequence without its i-th element
without(seq, i) == SubSeq(seq, 1, i - 1) \o SubSeq(seq, i + 1, Len(seq))

\* C1: in buildGeneratorConfigs a route whose module has no export that looks
\* like a stencil component only causes a warning: the call throws and
\* returns exactly what it does on the list without that route, and the
\* route is warned about.
C1_MissingComponentOnlyWarns ==
    op = "buildGeneratorConfigs" =>
        \A i \in 1..Len(bdInput.componentsCtx) :
            ~hasStencilExport(bdInput.componentsCtx[i].module) =>
                LET rest == buildGeneratorConfigs(without(bdInput.componentsCtx, i),
                                                  bdInput.storiesCtx)
                IN /\ bdResult.threw = rest.threw
                   /\ ~bdResult.threw =>
                         /\ bdResult.configs = rest.configs
                         /\ \E w \in 1..Len(bdResult.warnings) :
                               bdResult.warnings[w] = bdInput.componentsCtx[i].route
                         /\ \A c \in 1..Len(bdResult.configs) :
                               bdResult.configs[c].value.route # bdInput.componentsCtx[i].route

\* the calls buildStencilStories made for the component of a route
callsFor(route) == SelectSeq(bdResult.calls, LAMBDA c : c.route = route)

\* the story file of a route: the first whose path has the route's directory
storyOf(route) ==
    LET matching == {i \in 1..Len(bdInput.storiesCtx) :
                        containsDir(bdInput.storiesCtx[i].route, dirNameOf(route))}
    IN IF matching = {} THEN NoStoryExport
       ELSE bdInput.storiesCtx[CHOOSE i \in matching : \A j \in matching : i <= j].default

\* C6: buildStencilStories handles every route whose module exports a stencil
\* component exactly once: by one call of the story file's function when the
\* default export is one, by one call of createStencilStory otherwise.
\* (Stated of the calls that return.)
C6_EveryComponentHandledOnce ==
    (op = "buildStencilStories" /\ ~bdResult.threw) =>
        \A i \in 1..Len(bdInput.componentsCtx) :
            LET entry == bdInput.componentsCtx[i]
                calls == callsFor(entry.route)
            IN hasStencilExport(entry.module) =>
                /\ Len(calls) = 1
                /\ calls[1].kind = IF storyOf(entry.route).kind = "function" THEN "config"
                                   ELSE "createStencilStory"
                /\ storyOf(entry.route).kind = "function" =>
                        calls[1].fn = storyOf(entry.route).fn

====
